---- MODULE Spec2Model ----
(***************************************************************************)
(* Model of python_service/app.py: the /detect and /detect_ocr request     *)
(* handlers, the inference semaphore they share, the lazily created        *)
(* MediaPipe detector, the OpenCV fallback detector, ROI pre-processing    *)
(* and the OCR backends.                                                   *)
(*                                                                         *)
(* Scores and confidence thresholds are integers in hundredths (0.4 is 40, *)
(* conf = 0.30 is 30); pixel coordinates are integers.  A detection of     *)
(* /detect_ocr is the tuple <<x, y, w, h, score, label>> of the code.      *)
(***************************************************************************)
EXTENDS Integers, Sequences, FiniteSets, TLC

\* ------------------------------------------------------------------ bounds
\* number of request slots (concurrently running handlers)
NumProcs == 2
\* largest number of detections one external detector call returns
MaxDets == 2

Procs == 1..NumProcs

\* ------------------------------------------------------- program constants
\* asyncio.Semaphore(1)
SemaphoreSize == 1
\* score of the single fallback detection (0.4)
FallbackScore == 40
\* a clamped box or ROI of at most this many pixels in a dimension is dropped
MinRoi == 2
\* ROI size cap (max_dim)
MaxDim == 1200
\* the fallback rejects a rectangle below 2 % of the image: w*h < W*H*0.02
FallbackAreaPercent == 2

preferred == {"book", "paper", "document", "notebook", "magazine", "laptop",
              "cell phone", "tv"}

\* ------------------------------------------------------------ input domains
\* sizes of decodable images (W, H)
ImageSizes == {<<1300, 80>>}
\* query parameters of the requests
ConfValues == {30, 50}
MaxResultsValues == {1, 2}
\* texts an OCR backend returns (already stripped)
Texts == {"", "abc"}

\* str.lower() on the labels of the model
Lower(s) ==
    CASE s = "Book" -> "book"
      [] s = "TV" -> "tv"
      [] OTHER -> s

Max(a, b) == IF a >= b THEN a ELSE b
Min(a, b) == IF a <= b THEN a ELSE b

\* one MediaPipe detection: categories (empty or one entry) and bounding_box
MpDet(name, score, ox, oy, bw, bh) ==
    [categories |-> <<[category_name |-> name, score |-> score]>>,
     bounding_box |-> [origin_x |-> ox, origin_y |-> oy, width |-> bw, height |-> bh]]

\* what mp_det.detect(mp_image) can return on a 1300 x 80 image: detections of
\* areas 500 and 2000, a tie of area 500, a low score, a label outside the
\* allow-list, a box past the right and bottom edge that is wider than the ROI
\* size cap, a negative origin, a box starting at the last column, a detection
\* without categories
MpDetections ==
    { MpDet("Book",   80, -5, -5, 20, 25),
      MpDet("laptop", 80, 30, 20, 40, 50),
      MpDet("person", 45, 50, 10, 25, 20),
      MpDet("book",   60, 90, 70, 1250, 50),
      MpDet("book",   80, 1299, 10, 20, 20),
      [categories |-> <<>>,
       bounding_box |-> [origin_x |-> 0, origin_y |-> 0, width |-> 50, height |-> 40]] }

\* the lists of at most n elements of S a detector returns: no detection twice
RECURSIVE SeqsUpTo(_, _)
SeqsUpTo(S, n) ==
    IF n = 0 THEN {<<>>}
    ELSE LET shorter == SeqsUpTo(S, n - 1)
             longest == {t \in shorter : Len(t) = n - 1}
         IN  shorter \cup
             UNION {{Append(s, e) : e \in S \ {s[i] : i \in DOMAIN s}} : s \in longest}

MpResults == SeqsUpTo(MpDetections, MaxDets)

\* bounding rectangles cv2.boundingRect(c) of the largest contour of a W x H
\* image: the whole image, an inner region, a small speck, a row 2 pixels high
FallbackRects(W, H) ==
    { <<0, 0, W, H>>,
      <<W \div 10, H \div 8, (W * 6) \div 10, (H * 5) \div 8>>,
      <<5, 5, W \div 100, H \div 8>>,
      <<0, H \div 8, W, 2>> }

\* one YOLO box: xyxy corners, conf, cls
YoloBox(x1, y1, x2, y2, c, cls) ==
    [xyxy |-> <<x1, y1, x2, y2>>, conf |-> c, cls |-> cls]

\* what _model.predict(...)[0].boxes can hold: boxes inside the image, an inverted
\* box, a negative corner, a corner past the image, a class id the table lacks
YoloBoxes ==
    { YoloBox(10, 10, 30, 35, 80, 73),
      YoloBox(30, 20, 70, 70, 60, 0),
      YoloBox(40, 40, 20, 20, 50, 63),
      YoloBox(-5, 10, 30, 40, 70, 73),
      YoloBox(1260, 50, 1320, 90, 70, 99) }

YoloResults == SeqsUpTo(YoloBoxes, MaxDets)

\* MODEL_NAMES of the loaded YOLO model (class id -> name)
MODEL_NAMES == (0 :> "person") @@ (63 :> "laptop") @@ (73 :> "book")

\* str(cls_id) for the ids of the model
Str(i) == IF i = 99 THEN "99" ELSE "id"

\* ------------------------------------------------- /detect_ocr: pure steps
\* label and score of a MediaPipe detection (no categories: "object", 0.0)
MpLabel(d) ==
    IF d.categories # <<>> THEN d.categories[1].category_name ELSE "object"

MpScore(d) ==
    IF d.categories # <<>> THEN d.categories[1].score ELSE 0

\* ClampBox without the min(W, x + w) of the right edge
ClampBoxRightOpen(bb, W, H) ==
    LET x0 == Max(0, bb.origin_x)
        y0 == Max(0, bb.origin_y)
        w0 == Max(0, bb.width)
        h0 == Max(0, bb.height)
        x2 == x0 + w0
        y2 == Min(H, y0 + h0)
        x  == Min(x0, W - 1)
        y  == Min(y0, H - 1)
    IN  <<x, y, Max(0, x2 - x), Max(0, y2 - y)>>

\* the clamping of a primary detection's bounding box to the W x H image
ClampBox(bb, W, H) ==
    LET x0 == Max(0, bb.origin_x)
        y0 == Max(0, bb.origin_y)
        w0 == Max(0, bb.width)
        h0 == Max(0, bb.height)
        x2 == Min(W, x0 + w0)
        y2 == Min(H, y0 + h0)
        x  == Min(x0, W - 1)
        y  == Min(y0, H - 1)
    IN  <<x, y, Max(0, x2 - x), Max(0, y2 - y)>>

\* the size test left out: no box is dropped
DegenerateNever(w, h) == FALSE

\* the box is dropped: w <= 2 or h <= 2
Degenerate(w, h) == w <= MinRoi \/ h <= MinRoi

\* the score filter left out
BelowConfNever(score, conf) == FALSE

\* the score filter of the primary loop: score < conf drops the detection
BelowConf(score, conf) == score < conf

\* the label filter left out
NotPreferredNever(preferred_only, label) == FALSE

\* the label filter of both endpoints
NotPreferred(preferred_only, label) ==
    preferred_only /\ Lower(label) \notin preferred

\* the body of the loop over mp_result.detections for one detection:
\* the tuple appended to dets, or nothing
MpKeep(d, conf, preferred_only, W, H) ==
    LET label == MpLabel(d)
        score == MpScore(d)
        b     == ClampBox(d.bounding_box, W, H)
    IN  IF BelowConf(score, conf) THEN <<>>
        ELSE IF NotPreferred(preferred_only, label) THEN <<>>
        ELSE IF Degenerate(b[3], b[4]) THEN <<>>
        ELSE << <<b[1], b[2], b[3], b[4], score, label>> >>

\* the loop over the detections of one detector result
RECURSIVE MpConvert(_, _, _, _, _)
MpConvert(raw, conf, preferred_only, W, H) ==
    IF raw = <<>> THEN <<>>
    ELSE MpKeep(Head(raw), conf, preferred_only, W, H)
         \o MpConvert(Tail(raw), conf, preferred_only, W, H)

\* CvFallbackDetect without the "if cv2 is None: return []"
CvFallbackDetectUnchecked(has_cv2, rect, W, H) ==
    IF rect = <<>> THEN <<>>
    ELSE IF 100 * (rect[3] * rect[4]) < FallbackAreaPercent * (H * W) THEN <<>>
    ELSE << <<rect[1], rect[2], rect[3], rect[4], FallbackScore, "region">> >>

\* _cv_fallback_detect: rect is the bounding rectangle of the largest contour,
\* <<>> when no contour was found
CvFallbackDetect(has_cv2, rect, W, H) ==
    IF ~has_cv2 THEN <<>>
    ELSE IF rect = <<>> THEN <<>>
    ELSE IF 100 * (rect[3] * rect[4]) < FallbackAreaPercent * (H * W) THEN <<>>
    ELSE << <<rect[1], rect[2], rect[3], rect[4], FallbackScore, "region">> >>

\* the sort key: t[2] * t[3] of the code's 0-based tuple
Area(t) == t[3] * t[4]

\* InsertByArea putting a detection before the earlier ones of equal area
RECURSIVE InsertByAreaUnstable(_, _)
InsertByAreaUnstable(sorted, t) ==
    IF sorted = <<>> THEN <<t>>
    ELSE IF Area(Head(sorted)) > Area(t)
         THEN <<Head(sorted)>> \o InsertByAreaUnstable(Tail(sorted), t)
         ELSE <<t>> \o sorted

\* dets.sort(key=area, reverse=True): Python's sort is stable, also reversed;
\* insertion after every element of greater or equal key computes the same list
RECURSIVE InsertByArea(_, _)
InsertByArea(sorted, t) ==
    IF sorted = <<>> THEN <<t>>
    ELSE IF Area(Head(sorted)) >= Area(t)
         THEN <<Head(sorted)>> \o InsertByArea(Tail(sorted), t)
         ELSE <<t>> \o sorted

RECURSIVE SortInto(_, _)
SortInto(sorted, rest) ==
    IF rest = <<>> THEN sorted
    ELSE SortInto(InsertByArea(sorted, Head(rest)), Tail(rest))

SortByAreaDesc(ds) == SortInto(<<>>, ds)

\* the slice taken from the wrong end: dets[-max_results:]
TruncateFromEnd(ds, k) == SubSeq(ds, Len(ds) - Min(k, Len(ds)) + 1, Len(ds))

\* the ranked list left as it is, without the slice
TruncateNothing(ds, k) == ds

\* dets[:max_results]
Truncate(ds, k) == SubSeq(ds, 1, Min(k, Len(ds)))

\* the ROI corners of a ranked detection: <<rx1, ry1, rx2, ry2>>
RoiBox(t, W, H) == <<t[1], t[2], Min(W, t[1] + t[3]), Min(H, t[2] + t[4])>>

\* the size of the ROI handed on after the size cap: scale = min(1.0, 1200/max),
\* int(rw * scale) by cv2.resize, at least 1 by the PIL branch
CapRoi(rw, rh, has_cv2) ==
    LET m == Max(rw, rh)
    IN  IF m <= MaxDim THEN <<rw, rh>>
        ELSE IF has_cv2 THEN <<(rw * MaxDim) \div m, (rh * MaxDim) \div m>>
        ELSE <<Max(1, (rw * MaxDim) \div m), Max(1, (rh * MaxDim) \div m)>>

\* ---------------------------------------------------- /detect: pure steps
YoloLabel(cls_id) ==
    IF cls_id \in DOMAIN MODEL_NAMES THEN MODEL_NAMES[cls_id] ELSE Str(cls_id)

\* the Detection built from one YOLO box, or nothing when filtered
YoloKeep(b, preferred_only) ==
    LET label == YoloLabel(b.cls)
    IN  IF NotPreferred(preferred_only, label) THEN <<>>
        ELSE << [x |-> b.xyxy[1], y |-> b.xyxy[2],
                 width  |-> Max(0, b.xyxy[3] - b.xyxy[1]),
                 height |-> Max(0, b.xyxy[4] - b.xyxy[2]),
                 score |-> b.conf, label |-> label] >>

RECURSIVE YoloConvert(_, _)
YoloConvert(boxes, preferred_only) ==
    IF boxes = <<>> THEN <<>>
    ELSE YoloKeep(Head(boxes), preferred_only) \o YoloConvert(Tail(boxes), preferred_only)

\* ------------------------------------------------------------------- state
VARIABLES
    \* process-wide state set at import time
    MODEL_OK,        \* the YOLO model loaded
    MP_AVAILABLE,    \* the mediapipe modules imported
    cv2,             \* TRUE when cv2 was imported (cv2 is not None)
    OCR_BACKEND,     \* "easyocr", "pytesseract" or "None"
    mp_model_file,   \* os.path.exists(MP_MODEL_PATH)
    mp_detector,     \* the global _mp_detector: "None" or "detector"
    sem,             \* the value of _infer_semaphore
    \* per request slot
    pc,              \* where the handler stands
    req,             \* the endpoint and its query parameters
    data,            \* the bytes read from the upload: "none", "image", "corrupt"
    img,             \* <<W, H>> of the decoded image, <<>> before decoding
    dets,            \* the list dets of detect_ocr
    detector_used,   \* "None", "mediapipe" or "opencv"
    idx,             \* position of the loop over the ranked detections
    roi,             \* the ROI being prepared: <<>> or [w, h, form]
    ocr_dets,        \* the list ocr_dets of detect_ocr
    resp,            \* the response object built by the handler, <<>> before
    obs,             \* the external calls the running request has made so far
    exit,            \* the exit path the last finished request took
    \* the box clamping on its own (ClampSpec)
    arg,             \* the box and image size it is applied to, <<>> when unused
    result           \* what it returned, <<>> before

env == <<MODEL_OK, MP_AVAILABLE, cv2, OCR_BACKEND>>
mp == <<mp_model_file, mp_detector>>
locals == <<data, img, dets, detector_used, idx, roi, ocr_dets>>
pure == <<arg, result>>
vars == <<env, mp, sem, pc, req, locals, resp, obs, exit, pure>>

NoObs ==
    [acquired |-> 0, read |-> 0, decoded |-> 0, init |-> 0, primary |-> 0,
     fallback |-> 0, predict |-> 0, preprocess |-> 0, easyocr |-> 0,
     pytesseract |-> 0, kept |-> 0, filtered |-> <<>>, raised |-> <<>>]

\* positions inside "async with _infer_semaphore"
GatedPcs == {"read", "decode", "init_mp", "detect", "fallback", "rank", "crop",
             "resize", "preprocess", "ocr", "predict", "return"}

InGate(p) == pc[p] \in GatedPcs

\* the optional dependencies found at import time: every value of every flag,
\* every pairing of the two detectors with the vision library, every OCR
\* backend with regions to read
Deployments ==
    { [yolo |-> TRUE,  mediapipe |-> TRUE,  file |-> TRUE,  cv |-> TRUE,  ocr |-> "easyocr"],
      [yolo |-> FALSE, mediapipe |-> TRUE,  file |-> FALSE, cv |-> FALSE, ocr |-> "pytesseract"],
      [yolo |-> TRUE,  mediapipe |-> FALSE, file |-> FALSE, cv |-> TRUE,  ocr |-> "pytesseract"],
      [yolo |-> FALSE, mediapipe |-> FALSE, file |-> FALSE, cv |-> FALSE, ocr |-> "easyocr"],
      [yolo |-> TRUE,  mediapipe |-> TRUE,  file |-> FALSE, cv |-> TRUE,  ocr |-> "None"] }

InitService ==
    /\ \E d \in Deployments :
          /\ MODEL_OK = d.yolo
          /\ MP_AVAILABLE = d.mediapipe
          /\ cv2 = d.cv
          /\ OCR_BACKEND = d.ocr
          /\ mp_model_file = d.file
    /\ mp_detector = "None"
    /\ sem = SemaphoreSize
    /\ pc = [p \in Procs |-> "idle"]
    /\ req = [p \in Procs |-> <<>>]
    /\ data = [p \in Procs |-> "none"]
    /\ img = [p \in Procs |-> <<>>]
    /\ dets = [p \in Procs |-> <<>>]
    /\ detector_used = [p \in Procs |-> "None"]
    /\ idx = [p \in Procs |-> 0]
    /\ roi = [p \in Procs |-> <<>>]
    /\ ocr_dets = [p \in Procs |-> <<>>]
    /\ resp = [p \in Procs |-> <<>>]
    /\ obs = [p \in Procs |-> NoObs]
    /\ exit = [p \in Procs |-> "none"]

Init ==
    /\ InitService
    /\ arg = <<>>
    /\ result = <<>>

\* ---------------------------------------------------------------- responses
\* DetectResponse(success=False, detections=[], error="Model not available")
UnavailableResponse ==
    [success |-> FALSE, detections |-> <<>>, image_size |-> <<>>,
     error |-> "Model not available"]

\* str(e) of the exceptions the libraries raise: the message the exception was
\* made with, which is empty for an exception made without one (MemoryError())
ExceptionMessages == {"cannot identify image file", ""}

\* str(e) of the exception that decoding the upload raises: PIL's
\* UnidentifiedImageError carries a message, the MemoryError of a pixel buffer
\* that cannot be allocated carries none
DecodeError(upload) ==
    IF upload = "corrupt" THEN "cannot identify image file" ELSE ""

\* the response of "except Exception as e" of either endpoint, message = str(e)
ErrorResponse(endpoint, message) ==
    IF endpoint = "detect"
    THEN [success |-> FALSE, detections |-> <<>>, image_size |-> <<>>, error |-> message]
    ELSE [success |-> FALSE, detections |-> <<>>, image_size |-> <<>>,
          detector |-> "None", ocr_backend |-> "None", error |-> message]

DetectResponse(ds, size) ==
    [success |-> TRUE, detections |-> ds, image_size |-> size, error |-> "None"]

DetectOcrResponse(ds, size, detector, backend) ==
    [success |-> TRUE, detections |-> ds, image_size |-> size,
     detector |-> detector, ocr_backend |-> backend, error |-> "None"]

\* OcrDetection(x=rx1, y=ry1, width=rx2-rx1, height=ry2-ry1, score, label, text, ocr_score)
OcrDetection(box, t, text, ocr_score) ==
    [x |-> box[1], y |-> box[2], width |-> box[3] - box[1], height |-> box[4] - box[2],
     score |-> t[5], label |-> t[6], text |-> text, ocr_score |-> ocr_score]

\* ------------------------------------------------------------------ actions
\* "except Exception as e: return ...Response(success=False, ...)" inside the gate
RaiseWith(p, message) ==
    /\ resp' = [resp EXCEPT ![p] = ErrorResponse(req[p].endpoint, message)]
    /\ pc' = [pc EXCEPT ![p] = "return"]
    /\ exit' = [exit EXCEPT ![p] = "error"]

\* an external call raises, with whatever message
Raise(p) == \E message \in ExceptionMessages : RaiseWith(p, message)

\* The query parameters belong to a request from its arrival and never change.
\* The handlers first use them inside the gate, so the model draws them together
\* with the upload (Read): a request waiting for the gate is known by its
\* endpoint alone.

\* RequestDetect without the "if not MODEL_OK" return
RequestDetectUnchecked(p) ==
    /\ pc[p] \in {"idle", "done"}
    /\ req' = [req EXCEPT ![p] = [endpoint |-> "detect"]]
    /\ pc' = [pc EXCEPT ![p] = "acquire"]
    /\ exit' = [exit EXCEPT ![p] = "none"]
    /\ UNCHANGED <<pure, env, mp, sem, locals, resp, obs>>

\* a /detect request arrives; without the model it answers before the gate
RequestDetect(p) ==
    /\ pc[p] \in {"idle", "done"}
    /\ req' = [req EXCEPT ![p] = [endpoint |-> "detect"]]
    /\ IF ~MODEL_OK
       THEN /\ resp' = [resp EXCEPT ![p] = UnavailableResponse]
            /\ pc' = [pc EXCEPT ![p] = "unavailable"]
            /\ exit' = [exit EXCEPT ![p] = "unavailable"]
       ELSE /\ pc' = [pc EXCEPT ![p] = "acquire"]
            /\ exit' = [exit EXCEPT ![p] = "none"]
            /\ UNCHANGED resp
    /\ UNCHANGED <<pure, env, mp, sem, locals, obs>>

\* a /detect_ocr request arrives
RequestDetectOcr(p) ==
    /\ pc[p] \in {"idle", "done"}
    /\ req' = [req EXCEPT ![p] = [endpoint |-> "detect_ocr"]]
    /\ pc' = [pc EXCEPT ![p] = "acquire"]
    /\ exit' = [exit EXCEPT ![p] = "none"]
    /\ UNCHANGED <<pure, env, mp, sem, locals, resp, obs>>

\* Acquire entering without waiting for a free slot
AcquireWithoutWaiting(p) ==
    /\ pc[p] = "acquire"
    /\ sem' = sem - 1
    /\ pc' = [pc EXCEPT ![p] = "read"]
    /\ obs' = [obs EXCEPT ![p].acquired = @ + 1]
    /\ UNCHANGED <<pure, env, mp, req, locals, resp, exit>>

\* async with _infer_semaphore: enter when a slot is free
Acquire(p) ==
    /\ pc[p] = "acquire"
    /\ sem > 0
    /\ sem' = sem - 1
    /\ pc' = [pc EXCEPT ![p] = "read"]
    /\ obs' = [obs EXCEPT ![p].acquired = @ + 1]
    /\ UNCHANGED <<pure, env, mp, req, locals, resp, exit>>

\* the query parameters a request of the endpoint can carry
Requests(endpoint) ==
    IF endpoint = "detect"
    THEN [endpoint : {"detect"}, preferred_only : BOOLEAN]
    ELSE [endpoint : {"detect_ocr"}, conf : ConfValues, preferred_only : BOOLEAN,
          max_results : MaxResultsValues]

\* the uploads: a decodable image, bytes that are no image, an image too large
\* for the memory there is
Uploads == {"image", "corrupt", "too large"}

\* data = await image.read()
Read(p) ==
    /\ pc[p] = "read"
    /\ obs' = [obs EXCEPT ![p].read = @ + 1]
    /\ \E r \in Requests(req[p].endpoint) : req' = [req EXCEPT ![p] = r]
    /\ \/ /\ \E d \in Uploads : data' = [data EXCEPT ![p] = d]
          /\ pc' = [pc EXCEPT ![p] = "decode"]
          /\ UNCHANGED <<resp, exit>>
       \/ /\ Raise(p)
          /\ UNCHANGED data
    /\ UNCHANGED <<pure, env, mp, sem, img, dets, detector_used, idx, roi, ocr_dets>>

\* Image.open(BytesIO(data)).convert("RGB"), exif_transpose, W, H = size
Decode(p) ==
    /\ pc[p] = "decode"
    /\ obs' = [obs EXCEPT ![p].decoded = @ + 1]
    /\ IF data[p] # "image"
       THEN /\ RaiseWith(p, DecodeError(data[p]))
            /\ UNCHANGED <<img, dets, detector_used>>
       ELSE /\ \E size \in ImageSizes : img' = [img EXCEPT ![p] = size]
            /\ dets' = [dets EXCEPT ![p] = <<>>]
            /\ detector_used' = [detector_used EXCEPT ![p] = "None"]
            /\ pc' = [pc EXCEPT ![p] =
                        IF req[p].endpoint = "detect" THEN "predict" ELSE "init_mp"]
            /\ UNCHANGED <<resp, exit>>
    /\ UNCHANGED <<pure, env, mp, sem, req, data, idx, roi, ocr_dets>>

\* _init_mp_detector() with _ensure_mp_model(): the values of
\* <<mp_model_file, _mp_detector>> it can leave behind
InitMpOutcomes(available, file, detector) ==
    IF ~available THEN {<<file, detector>>}
    ELSE IF detector # "None" THEN {<<file, detector>>}
    ELSE \* the model file is downloaded when it is missing; the download can fail
         (IF file THEN {} ELSE {<<FALSE, "None">>})
         \cup \* create_from_options succeeds or raises
         {<<TRUE, "detector">>, <<TRUE, "None">>}

\* mp_det = _init_mp_detector()
InitMp(p) ==
    /\ pc[p] = "init_mp"
    /\ \E o \in InitMpOutcomes(MP_AVAILABLE, mp_model_file, mp_detector) :
          /\ mp_model_file' = o[1]
          /\ mp_detector' = o[2]
    /\ obs' = [obs EXCEPT ![p].init = @ + 1]
    /\ pc' = [pc EXCEPT ![p] = "detect"]
    /\ UNCHANGED <<pure, env, sem, req, locals, resp, exit>>

\* the block "if mp_det is not None: try: ... except Exception: pass":
\* the detector returns raw, or the block raises after n detections were handled
DetectPrimary(p) ==
    /\ pc[p] = "detect"
    /\ IF mp_detector = "None"
       THEN UNCHANGED <<dets, detector_used, obs>>
       ELSE \E raw \in MpResults, n \in 0..MaxDets, raised \in BOOLEAN :
            /\ n <= Len(raw)
            /\ IF raised THEN n < Len(raw) \/ raw = <<>> ELSE n = Len(raw)
            /\ LET kept == MpConvert(SubSeq(raw, 1, n), req[p].conf,
                                     req[p].preferred_only, img[p][1], img[p][2])
               IN  /\ dets' = [dets EXCEPT ![p] = kept]
                   /\ obs' = [obs EXCEPT ![p].primary = @ + 1, ![p].kept = Len(kept)]
            /\ detector_used' = [detector_used EXCEPT ![p] =
                                    IF raised THEN "None" ELSE "mediapipe"]
    /\ pc' = [pc EXCEPT ![p] = "fallback"]
    /\ UNCHANGED <<pure, env, mp, sem, req, data, img, idx, roi, ocr_dets, resp, exit>>

\* the fallback called whatever the primary detector left
NeedsFallbackAlways(ds) == TRUE

\* "if not dets:" before the fallback call
NeedsFallback(ds) == ds = <<>>

\* the second "if not dets:": the early return with the empty list, else on to
\* the ranking, with nd and du the values of dets and detector_used
AfterFallback(p, nd, du) ==
    /\ dets' = [dets EXCEPT ![p] = nd]
    /\ detector_used' = [detector_used EXCEPT ![p] = du]
    /\ IF nd = <<>>
       THEN /\ resp' = [resp EXCEPT ![p] =
                   DetectOcrResponse(<<>>, img[p], du, OCR_BACKEND)]
            /\ pc' = [pc EXCEPT ![p] = "return"]
            /\ exit' = [exit EXCEPT ![p] = "early"]
       ELSE /\ pc' = [pc EXCEPT ![p] = "rank"]
            /\ UNCHANGED <<resp, exit>>

\* "if not dets: fb = _cv_fallback_detect(np_rgb); if fb: dets.extend(fb) ..."
Fallback(p) ==
    /\ pc[p] = "fallback"
    /\ IF ~NeedsFallback(dets[p])
       THEN /\ AfterFallback(p, dets[p], detector_used[p])
            /\ UNCHANGED obs
       ELSE /\ obs' = [obs EXCEPT ![p].fallback = @ + 1]
            /\ \/ \E rect \in FallbackRects(img[p][1], img[p][2]) \cup {<<>>} :
                    LET fb == CvFallbackDetect(cv2, rect, img[p][1], img[p][2])
                    IN  AfterFallback(p, dets[p] \o fb,
                                      IF fb # <<>> THEN "opencv" ELSE detector_used[p])
               \/ \* a cv2 call of the fallback raises: the outer except answers
                  /\ cv2
                  /\ Raise(p)
                  /\ UNCHANGED <<dets, detector_used>>
    /\ UNCHANGED <<pure, env, mp, sem, req, data, img, idx, roi, ocr_dets>>

\* dets.sort(key=area, reverse=True); dets = dets[:max_results]
Rank(p) ==
    /\ pc[p] = "rank"
    /\ dets' = [dets EXCEPT ![p] = Truncate(SortByAreaDesc(dets[p]), req[p].max_results)]
    /\ obs' = [obs EXCEPT ![p].filtered = dets[p]]
    /\ idx' = [idx EXCEPT ![p] = 1]
    /\ ocr_dets' = [ocr_dets EXCEPT ![p] = <<>>]
    /\ pc' = [pc EXCEPT ![p] = "crop"]
    /\ UNCHANGED <<pure, env, mp, sem, req, data, img, detector_used, roi, resp, exit>>

\* the head of "for (x, y, w, h, score, label) in dets": crop the ROI, skip a
\* degenerate one; after the last detection build the response
Crop(p) ==
    /\ pc[p] = "crop"
    /\ IF idx[p] > Len(dets[p])
       THEN /\ resp' = [resp EXCEPT ![p] =
                   DetectOcrResponse(ocr_dets[p], img[p], detector_used[p], OCR_BACKEND)]
            /\ pc' = [pc EXCEPT ![p] = "return"]
            /\ exit' = [exit EXCEPT ![p] = "normal"]
            /\ UNCHANGED <<idx, roi>>
       ELSE LET box == RoiBox(dets[p][idx[p]], img[p][1], img[p][2])
            IN  IF Degenerate(box[3] - box[1], box[4] - box[2])
                THEN /\ idx' = [idx EXCEPT ![p] = @ + 1]
                     /\ UNCHANGED <<roi, pc, resp, exit>>
                ELSE /\ roi' = [roi EXCEPT ![p] =
                            [w |-> box[3] - box[1], h |-> box[4] - box[2], form |-> "crop"]]
                     /\ pc' = [pc EXCEPT ![p] = "resize"]
                     /\ UNCHANGED <<idx, resp, exit>>
    /\ UNCHANGED <<pure, env, mp, sem, req, data, img, dets, detector_used, ocr_dets, obs>>

\* the size cap: "try: ... scale ... resize ... except Exception: pass"
Resize(p) ==
    /\ pc[p] = "resize"
    /\ LET capped == CapRoi(roi[p].w, roi[p].h, cv2)
       IN  \/ roi' = [roi EXCEPT ![p] =
                        IF capped = <<roi[p].w, roi[p].h>> THEN @
                        ELSE [w |-> capped[1], h |-> capped[2], form |-> "resized"]]
           \/ \* the resize raises: the ROI stays as cropped
              /\ capped # <<roi[p].w, roi[p].h>>
              /\ UNCHANGED roi
    /\ pc' = [pc EXCEPT ![p] = "preprocess"]
    /\ UNCHANGED <<pure, env, mp, sem, req, data, img, dets, detector_used, idx, ocr_dets,
                   resp, obs, exit>>

\* the cv2 call of _preprocess_for_ocr that raises, if one does: cvtColor to
\* gray, bilateralFilter, adaptiveThreshold, adaptiveThreshold and then the Otsu
\* threshold, morphologyEx, cvtColor back to RGB
PreprocessFaults == {"none", "gray", "smooth", "adaptive", "otsu", "open", "rgb"}

\* PreprocessForOcr without the "if cv2 is None: return np_rgb_roi"
PreprocessForOcrUnchecked(has_cv2, form, fault) ==
    IF fault \in {"none", "adaptive"} THEN [raises |-> FALSE, form |-> "binary"]
    ELSE [raises |-> TRUE, form |-> form]

\* _preprocess_for_ocr(np_rgb_roi) on a ROI of the given form when the call
\* named by fault raises: only adaptiveThreshold is inside a try (Otsu takes
\* over), an exception of any other call leaves the function
PreprocessForOcr(has_cv2, form, fault) ==
    IF ~has_cv2 THEN [raises |-> FALSE, form |-> form]
    ELSE IF fault \in {"none", "adaptive"} THEN [raises |-> FALSE, form |-> "binary"]
    ELSE [raises |-> TRUE, form |-> form]

\* roi_p = _preprocess_for_ocr(roi)
Preprocess(p) ==
    /\ pc[p] = "preprocess"
    /\ obs' = [obs EXCEPT ![p].preprocess = IF cv2 THEN @ + 1 ELSE @]
    /\ \E fault \in PreprocessFaults :
          LET r == PreprocessForOcr(cv2, roi[p].form, fault)
          IN  IF r.raises
              THEN \* the exception reaches the except clause of the handler
                   /\ Raise(p)
                   /\ UNCHANGED roi
              ELSE /\ roi' = [roi EXCEPT ![p].form = r.form]
                   /\ pc' = [pc EXCEPT ![p] = "ocr"]
                   /\ UNCHANGED <<resp, exit>>
    /\ UNCHANGED <<pure, env, mp, sem, req, data, img, dets, detector_used, idx, ocr_dets>>

\* _run_ocr(roi_p): the texts it can return
RunOcrTexts(backend) ==
    IF backend = "None" THEN {""} ELSE Texts

\* what a backend call does: it raises, or it returns a text
OcrOutcomes(backend) ==
    {[raises |-> TRUE, text |-> ""]}
        \cup {[raises |-> FALSE, text |-> t] : t \in RunOcrTexts(backend)}

\* RunOcr with the second branch entered whenever the first did not return
RunOcrTryingNext(backend, o) ==
    LET viaEasyocr == backend = "easyocr"
        easyocrReturns == viaEasyocr /\ ~o.raises
        viaPytesseract == ~easyocrReturns
        pytesseractReturns == viaPytesseract /\ ~o.raises
    IN  [text |-> IF easyocrReturns \/ pytesseractReturns THEN o.text ELSE "",
         ocr_score |-> 0,
         easyocr |-> IF viaEasyocr THEN 1 ELSE 0,
         pytesseract |-> IF viaPytesseract THEN 1 ELSE 0,
         raised |-> (viaEasyocr \/ viaPytesseract) /\ o.raises]

\* _run_ocr(np_rgb_roi) when a backend call made in it behaves as o: the text
\* and score returned, the backend calls made, and whether a call raised.
\* _easyocr_reader is set exactly when OCR_BACKEND is 'easyocr' (lines 31-35).
RunOcr(backend, o) ==
    LET viaEasyocr == backend = "easyocr"
        easyocrReturns == viaEasyocr /\ ~o.raises
        viaPytesseract == ~easyocrReturns /\ backend = "pytesseract"
        pytesseractReturns == viaPytesseract /\ ~o.raises
    IN  [text |-> IF easyocrReturns \/ pytesseractReturns THEN o.text ELSE "",
         ocr_score |-> 0,
         easyocr |-> IF viaEasyocr THEN 1 ELSE 0,
         pytesseract |-> IF viaPytesseract THEN 1 ELSE 0,
         raised |-> (viaEasyocr \/ viaPytesseract) /\ o.raises]

\* Ocr letting the exception of a backend call reach the handler
OcrPropagating(p) ==
    /\ pc[p] = "ocr"
    /\ \E o \in OcrOutcomes(OCR_BACKEND) :
          LET r == RunOcr(OCR_BACKEND, o)
          IN  /\ obs' = [obs EXCEPT ![p].easyocr = @ + r.easyocr,
                                    ![p].pytesseract = @ + r.pytesseract,
                                    ![p].raised = Append(@, r.raised)]
              /\ IF r.raised
                 THEN /\ Raise(p)
                      /\ UNCHANGED <<ocr_dets, idx, roi>>
                 ELSE /\ ocr_dets' = [ocr_dets EXCEPT ![p] =
                            Append(@, OcrDetection(RoiBox(dets[p][idx[p]], img[p][1], img[p][2]),
                                                   dets[p][idx[p]], r.text, r.ocr_score))]
                      /\ idx' = [idx EXCEPT ![p] = @ + 1]
                      /\ roi' = [roi EXCEPT ![p] = <<>>]
                      /\ pc' = [pc EXCEPT ![p] = "crop"]
                      /\ UNCHANGED <<resp, exit>>
    /\ UNCHANGED <<pure, env, mp, sem, req, data, img, dets, detector_used>>

\* text, ocr_score = _run_ocr(roi_p); ocr_dets.append(OcrDetection(...))
Ocr(p) ==
    /\ pc[p] = "ocr"
    /\ \E o \in OcrOutcomes(OCR_BACKEND) :
          LET r == RunOcr(OCR_BACKEND, o)
          IN  /\ obs' = [obs EXCEPT ![p].easyocr = @ + r.easyocr,
                                    ![p].pytesseract = @ + r.pytesseract,
                                    ![p].raised = Append(@, r.raised)]
              /\ ocr_dets' = [ocr_dets EXCEPT ![p] =
                    Append(@, OcrDetection(RoiBox(dets[p][idx[p]], img[p][1], img[p][2]),
                                           dets[p][idx[p]], r.text, r.ocr_score))]
    /\ idx' = [idx EXCEPT ![p] = @ + 1]
    /\ roi' = [roi EXCEPT ![p] = <<>>]
    /\ pc' = [pc EXCEPT ![p] = "crop"]
    /\ UNCHANGED <<pure, env, mp, sem, req, data, img, dets, detector_used, resp, exit>>

\* /detect: results = _model.predict(...), the loop over res.boxes, the response
Predict(p) ==
    /\ pc[p] = "predict"
    /\ obs' = [obs EXCEPT ![p].predict = @ + 1]
    /\ \/ \E boxes \in YoloResults :
             /\ resp' = [resp EXCEPT ![p] =
                    DetectResponse(YoloConvert(boxes, req[p].preferred_only), img[p])]
             /\ pc' = [pc EXCEPT ![p] = "return"]
             /\ exit' = [exit EXCEPT ![p] = "normal"]
       \/ Raise(p)
    /\ UNCHANGED <<pure, env, mp, sem, req, locals>>

\* what the handler leaves behind when it has returned
Returned(p) ==
    /\ pc' = [pc EXCEPT ![p] = "done"]
    /\ data' = [data EXCEPT ![p] = "none"]
    /\ img' = [img EXCEPT ![p] = <<>>]
    /\ dets' = [dets EXCEPT ![p] = <<>>]
    /\ detector_used' = [detector_used EXCEPT ![p] = "None"]
    /\ idx' = [idx EXCEPT ![p] = 0]
    /\ roi' = [roi EXCEPT ![p] = <<>>]
    /\ ocr_dets' = [ocr_dets EXCEPT ![p] = <<>>]
    /\ resp' = [resp EXCEPT ![p] = <<>>]
    /\ obs' = [obs EXCEPT ![p] = NoObs]
    /\ req' = [req EXCEPT ![p] = <<>>]
    /\ exit' = [exit EXCEPT ![p] = IF @ = "error" THEN "error" ELSE "returned"]
    /\ UNCHANGED <<pure, env, mp>>

\* Return keeping the slot when the handler leaves by the except clause
ReturnLeakingOnError(p) ==
    /\ pc[p] = "return"
    /\ sem' = IF exit[p] = "error" THEN sem ELSE sem + 1
    /\ Returned(p)

\* Return with an __aexit__ that does not release the slot
ReturnWithoutRelease(p) ==
    /\ pc[p] = "return"
    /\ sem' = sem
    /\ Returned(p)

\* the handler returns from inside the gate: __aexit__ releases the slot
Return(p) ==
    /\ pc[p] = "return"
    /\ sem' = sem + 1
    /\ Returned(p)

\* the handler returns the "Model not available" response; it holds no slot
ReturnUnavailable(p) ==
    /\ pc[p] = "unavailable"
    /\ pc' = [pc EXCEPT ![p] = "done"]
    /\ resp' = [resp EXCEPT ![p] = <<>>]
    /\ req' = [req EXCEPT ![p] = <<>>]
    /\ exit' = [exit EXCEPT ![p] = "returned"]
    /\ UNCHANGED <<pure, env, mp, sem, locals, obs>>

Next ==
    \E p \in Procs :
        \/ RequestDetect(p)
        \/ RequestDetectOcr(p)
        \/ Acquire(p)
        \/ Read(p)
        \/ Decode(p)
        \/ InitMp(p)
        \/ DetectPrimary(p)
        \/ Fallback(p)
        \/ Rank(p)
        \/ Crop(p)
        \/ Resize(p)
        \/ Preprocess(p)
        \/ Ocr(p)
        \/ Predict(p)
        \/ Return(p)
        \/ ReturnUnavailable(p)

Spec == Init /\ [][Next]_vars

\* ------------------------------------------------------------- scheduling
\* a step of the handler of request p once it was called and is not waiting
\* for the gate
Step(p) ==
    \/ Read(p)
    \/ Decode(p)
    \/ InitMp(p)
    \/ DetectPrimary(p)
    \/ Fallback(p)
    \/ Rank(p)
    \/ Crop(p)
    \/ Resize(p)
    \/ Preprocess(p)
    \/ Ocr(p)
    \/ Predict(p)
    \/ Return(p)
    \/ ReturnUnavailable(p)

\* The event loop runs every handler that can go on, and every external call
\* returns or raises: a handler that is not waiting for the gate takes its next
\* step.  asyncio.Semaphore wakes its waiters in the order they arrived, so a
\* request that waits while the slot becomes free again and again is not passed
\* over for ever.  Nothing makes a client send a request.
Fairness ==
    \A p \in Procs : WF_vars(Step(p)) /\ SF_vars(Acquire(p))

FairSpec == Init /\ [][Next]_vars /\ Fairness

\* ------------------------------------------- the box clamping on its own
\* largest coordinate and extent of the boxes drawn
MaxCoord == 6

\* image sizes the boxes are clamped to
ClampSizes == {<<4, 5>>, <<5, 4>>}

ClampArgs ==
    [bb : [origin_x : -1..MaxCoord, origin_y : -1..MaxCoord,
           width : -1..MaxCoord + 1, height : -1..MaxCoord + 1],
     size : ClampSizes]

ClampInit ==
    /\ InitService
    /\ arg \in ClampArgs
    /\ result = <<>>

\* lines 296-305 applied to arg: the clamped box and whether it is dropped
ClampApply ==
    /\ arg # <<>>
    /\ result = <<>>
    /\ LET b == ClampBox(arg.bb, arg.size[1], arg.size[2])
       IN  result' = [box |-> b, rejected |-> Degenerate(b[3], b[4])]
    /\ UNCHANGED <<env, mp, sem, pc, req, locals, resp, obs, exit, arg>>

ClampNext == ClampApply

ClampSpec == ClampInit /\ [][ClampNext]_vars

\* ------------------------------------------------------------------- claims
\* the requests of /detect_ocr that are past the detection stage
OcrRequests == {p \in Procs : pc[p] \notin {"idle", "done"} /\ req[p].endpoint = "detect_ocr"}
DetectRequests == {p \in Procs : pc[p] \notin {"idle", "done"} /\ req[p].endpoint = "detect"}
PastDetection(p) ==
    \/ pc[p] \in {"rank", "crop", "resize", "preprocess", "ocr"}
    \/ pc[p] = "return" /\ exit[p] \in {"early", "normal"}

\* C1: at most SemaphoreSize = 1 requests are inside the gated section at a time,
\* whatever their endpoints: no two requests hold the gate together
C1_GateMutex ==
    /\ SemaphoreSize = 1
    /\ Cardinality({p \in Procs : InGate(p)}) <= SemaphoreSize
    /\ \A p, q \in Procs : p # q => ~(InGate(p) /\ InGate(q))

\* a /detect request is inside the gate while a /detect_ocr request waits for it
C1_Witness ==
    \E p, q \in Procs :
        /\ InGate(p) /\ req[p].endpoint = "detect"
        /\ pc[q] = "acquire" /\ req[q].endpoint = "detect_ocr"

\* C2: the free slots and the requests inside the gate always add up to the
\* capacity, so once every request has left the gate, by whatever exit path,
\* all slots are free again
C2_NoSlotLeaked ==
    /\ sem + Cardinality({p \in Procs : InGate(p)}) = SemaphoreSize
    /\ (\A p \in Procs : ~InGate(p)) => sem = SemaphoreSize

\* all requests have finished, one by the except path and one by a return
C2_Witness ==
    /\ \A p \in Procs : pc[p] = "done"
    /\ \E p, q \in Procs : exit[p] = "error" /\ exit[q] = "returned"
    /\ sem = SemaphoreSize

\* C3: no /detect_ocr request calls the fallback detector more than once; a
\* request that is past the detection stage has called it exactly once when the
\* primary detector left no usable detection and not at all otherwise
C3_FallbackOnce ==
    \A p \in OcrRequests :
        /\ obs[p].fallback <= 1
        /\ obs[p].fallback = 1 => obs[p].kept = 0
        /\ PastDetection(p) =>
              obs[p].fallback = (IF obs[p].kept = 0 THEN 1 ELSE 0)

\* the primary detector ran, every result was filtered out, the fallback was
\* called once and found a region
C3_Witness ==
    \E p \in OcrRequests :
        /\ pc[p] = "rank"
        /\ obs[p].primary = 1 /\ detector_used[p] = "opencv"
        /\ obs[p].kept = 0 /\ obs[p].fallback = 1

\* C4 as stated: when the model failed to load, every request in flight, of
\* either endpoint, stands at the unavailability response and has neither waited
\* for the gate nor read, decoded or detected anything
C4_Original ==
    ~MODEL_OK =>
        \A p \in Procs :
            pc[p] \notin {"idle", "done"} =>
                /\ pc[p] = "unavailable"
                /\ resp[p] = UnavailableResponse
                /\ obs[p] = NoObs

\* C4 (amended): when the YOLO model failed to load, every /detect request
\* stands at the unavailability response (success false, no detections, an
\* error message) and has neither waited for or acquired the gate nor read,
\* decoded or detected anything
C4_DetectUnavailable ==
    ~MODEL_OK =>
        \A p \in DetectRequests :
            /\ pc[p] = "unavailable"
            /\ resp[p].success = FALSE
            /\ resp[p].detections = <<>>
            /\ resp[p].error \notin {"None", ""}
            /\ obs[p] = NoObs

\* a /detect request is answered as unavailable while another request holds the gate
C4_Witness ==
    \E p \in DetectRequests, q \in Procs :
        /\ ~MODEL_OK
        /\ pc[p] = "unavailable" /\ resp[p] = UnavailableResponse
        /\ InGate(q) /\ sem = 0

\* the scores of a sequence of detections (tuples) or regions (records)
ScoresAtLeast(ds, c) == \A i \in DOMAIN ds : ds[i][5] >= c
RegionScoresAtLeast(rs, c) == \A i \in DOMAIN rs : rs[i].score >= c

\* C5 as stated: every detection at or past the ranking stage of /detect_ocr and
\* every region of its response has score >= conf, whichever detector made it
C5_Original ==
    \A p \in OcrRequests :
        /\ PastDetection(p) => ScoresAtLeast(dets[p], req[p].conf)
        /\ (pc[p] = "return" /\ resp[p].success) =>
              RegionScoresAtLeast(resp[p].detections, req[p].conf)

\* C5 (amended): every detection of the primary detector at or past the ranking
\* stage, and every region made from one, has score >= conf; the fallback
\* detector's single detection has the fixed score 0.4, whatever conf is
C5_PrimaryAboveConf ==
    \A p \in OcrRequests :
        /\ (PastDetection(p) /\ detector_used[p] # "opencv") =>
              ScoresAtLeast(dets[p], req[p].conf)
        /\ (PastDetection(p) /\ detector_used[p] = "opencv") =>
              /\ Len(dets[p]) = 1
              /\ dets[p][1][5] = FallbackScore
        /\ (pc[p] = "return" /\ resp[p].success) =>
              IF resp[p].detector # "opencv"
              THEN RegionScoresAtLeast(resp[p].detections, req[p].conf)
              ELSE \A i \in DOMAIN resp[p].detections :
                      resp[p].detections[i].score = FallbackScore

\* a response with conf = 0.5 whose region comes from the primary detector
C5_Witness ==
    \E p \in OcrRequests :
        /\ pc[p] = "return" /\ resp[p].success
        /\ req[p].conf = 50
        /\ resp[p].detector = "mediapipe"
        /\ resp[p].detections # <<>>

LabelsPreferred(rs) == \A i \in DOMAIN rs : Lower(rs[i].label) \in preferred

PastRank(p) ==
    \/ pc[p] \in {"crop", "resize", "preprocess", "ocr"}
    \/ pc[p] = "return" /\ exit[p] = "normal"

IsPrefix(s, t) == Len(s) <= Len(t) /\ s = SubSeq(t, 1, Len(s))
WithArea(ds, a) == SelectSeq(ds, LAMBDA t : Area(t) = a)

\* C7: the ranked list has min(k, n) elements in descending area, and for every
\* area the ranked detections of that area are the first ones of that area in
\* detection order, in that order
C7_StableRank ==
    \A p \in OcrRequests :
        PastRank(p) =>
            LET f == obs[p].filtered
                r == dets[p]
            IN  /\ Len(r) = Min(req[p].max_results, Len(f))
                /\ \A i, j \in DOMAIN r : i < j => Area(r[i]) >= Area(r[j])
                /\ \A n \in DOMAIN f :
                      IsPrefix(WithArea(r, Area(f[n])), WithArea(f, Area(f[n])))

\* two different detections of equal area and max_results = 1: the first is kept
C7_Witness ==
    \E p \in OcrRequests :
        /\ pc[p] = "crop" /\ req[p].max_results = 1
        /\ Len(obs[p].filtered) = 2
        /\ obs[p].filtered[1] # obs[p].filtered[2]
        /\ Area(obs[p].filtered[1]) = Area(obs[p].filtered[2])
        /\ dets[p] = <<obs[p].filtered[1]>>

Count(ds, t) == Cardinality({i \in DOMAIN ds : ds[i] = t})

\* C8: the ranked list holds min(k, n) of the filtered detections, none left out
\* has a larger area than one that is in it, and every region of the response
\* is the ROI of a ranked detection
C8_TopK ==
    \A p \in OcrRequests :
        PastRank(p) =>
            LET f == obs[p].filtered
                r == dets[p]
            IN  /\ Len(r) = Min(req[p].max_results, Len(f))
                /\ \A i \in DOMAIN r : Count(r, r[i]) <= Count(f, r[i])
                /\ \A n \in DOMAIN f :
                      Count(r, f[n]) < Count(f, f[n]) =>
                          \A i \in DOMAIN r : Area(f[n]) <= Area(r[i])
                /\ Len(ocr_dets[p]) <= Len(r)
                /\ \A m \in DOMAIN ocr_dets[p] :
                      \E i \in DOMAIN r :
                          ocr_dets[p][m] =
                              OcrDetection(RoiBox(r[i], img[p][1], img[p][2]), r[i],
                                           ocr_dets[p][m].text, 0)

\* detections of areas 500 and 2000 with max_results = 1: the response holds the
\* region of area 2000 alone
C8_Witness ==
    \E p \in OcrRequests :
        /\ pc[p] = "return" /\ resp[p].success /\ req[p].max_results = 1
        /\ Len(obs[p].filtered) = 2
        /\ Area(obs[p].filtered[1]) = 500 /\ Area(obs[p].filtered[2]) = 2000
        /\ Len(resp[p].detections) = 1
        /\ resp[p].detections[1].width * resp[p].detections[1].height = 2000

\* the box lies in the image
BoxInside(x, y, w, h, W, H) ==
    /\ 0 <= x /\ 0 <= y
    /\ x + w <= W /\ y + h <= H

\* C9: a raw box with x, y, width, height >= 0 that passes the right or the
\* bottom edge is dropped or comes out inside the image
C9_ClampInside ==
    (/\ result # <<>>
     /\ arg.bb.origin_x >= 0 /\ arg.bb.origin_y >= 0
     /\ arg.bb.width >= 0 /\ arg.bb.height >= 0
     /\ \/ arg.bb.origin_x + arg.bb.width > arg.size[1]
        \/ arg.bb.origin_y + arg.bb.height > arg.size[2])
    => \/ result.rejected
       \/ BoxInside(result.box[1], result.box[2], result.box[3], result.box[4],
                    arg.size[1], arg.size[2])

\* a box past the right and the bottom edge that is kept, cut at both edges
C9_Witness ==
    /\ result # <<>>
    /\ arg.bb.origin_x >= 0 /\ arg.bb.origin_y >= 0
    /\ arg.bb.origin_x + arg.bb.width > arg.size[1]
    /\ arg.bb.origin_y + arg.bb.height > arg.size[2]
    /\ ~result.rejected
    /\ result.box[1] + result.box[3] = arg.size[1]
    /\ result.box[2] + result.box[4] = arg.size[2]

\* C10 as stated: every box of a successful response of either endpoint has
\* x, y, width, height >= 0 and lies inside the image
C10_Original ==
    \A p \in Procs :
        (pc[p] = "return" /\ resp[p].success) =>
            \A i \in DOMAIN resp[p].detections :
                LET d == resp[p].detections[i]
                IN  /\ d.width >= 0 /\ d.height >= 0
                    /\ BoxInside(d.x, d.y, d.width, d.height,
                                 resp[p].image_size[1], resp[p].image_size[2])

\* the ranked detections of request p whose ROI is not degenerate, among the
\* first n
Processed(p, n) ==
    {i \in 1..n :
        LET box == RoiBox(dets[p][i], img[p][1], img[p][2])
        IN  box[3] - box[1] > MinRoi /\ box[4] - box[2] > MinRoi}

\* the backend calls request p has made
OcrCalls(p) == obs[p].easyocr + obs[p].pytesseract

\* C11: a ranked detection with a ROI of at most 2 pixels in a dimension is
\* skipped: no region that small is in the list of regions, one region was made
\* and at most one recognition call was issued per ROI that is not degenerate,
\* and the request that handled all its detections answers success=true with
\* these regions; a detection of the primary detector that small never reaches
\* the ranking
C11_DegenerateSkipped ==
    \A p \in OcrRequests :
        /\ PastDetection(p) =>
              \A i \in DOMAIN dets[p] :
                  dets[p][i][6] # "region" =>
                      dets[p][i][3] > MinRoi /\ dets[p][i][4] > MinRoi
        /\ PastRank(p) =>
              /\ \A m \in DOMAIN ocr_dets[p] :
                    ocr_dets[p][m].width > MinRoi /\ ocr_dets[p][m].height > MinRoi
              /\ Len(ocr_dets[p]) = Cardinality(Processed(p, idx[p] - 1))
              /\ OcrCalls(p) = IF OCR_BACKEND = "None" THEN 0 ELSE Len(ocr_dets[p])
        /\ (pc[p] = "return" /\ exit[p] = "normal") =>
              /\ idx[p] = Len(dets[p]) + 1
              /\ resp[p].success
              /\ resp[p].detections = ocr_dets[p]

\* the fallback found a row 2 pixels high: it was ranked, skipped at the crop,
\* no recognition call was made and the response is a success without regions
C11_Witness ==
    \E p \in OcrRequests :
        /\ pc[p] = "return" /\ exit[p] = "normal"
        /\ OCR_BACKEND # "None"
        /\ Len(dets[p]) = 1 /\ dets[p][1][4] = MinRoi
        /\ OcrCalls(p) = 0
        /\ resp[p].success /\ resp[p].detections = <<>>

\* the requests that left the loop over the ranked detections by an exception
FailedInLoop(p) == pc[p] = "return" /\ exit[p] = "error" /\ obs[p].filtered # <<>>

\* C12: every recognition call of a request, raising or not, gives one region;
\* the region of a call that raised has text "" and recognition score 0; a call
\* is made for every later ROI as well; the request that handled all its
\* detections answers success=true with these regions; and when a request fails
\* inside the loop, the exception is not one of a recognition call
C12_OcrRaiseTolerated ==
    \A p \in OcrRequests :
        /\ (PastRank(p) \/ FailedInLoop(p)) =>
              /\ Len(obs[p].raised) = Len(ocr_dets[p])
              /\ \A m \in DOMAIN ocr_dets[p] :
                    obs[p].raised[m] =>
                        ocr_dets[p][m].text = "" /\ ocr_dets[p][m].ocr_score = 0
        /\ PastRank(p) =>
              /\ Len(ocr_dets[p]) = Cardinality(Processed(p, idx[p] - 1))
              /\ OCR_BACKEND # "None" => OcrCalls(p) = Len(ocr_dets[p])
        /\ (pc[p] = "return" /\ exit[p] = "normal") =>
              /\ resp[p].success
              /\ resp[p].detections = ocr_dets[p]

\* the call for the first of two ROIs raised, the call for the second returned a
\* text: the response is a success with both regions
C12_Witness ==
    \E p \in OcrRequests :
        /\ pc[p] = "return" /\ resp[p].success
        /\ obs[p].raised = <<TRUE, FALSE>>
        /\ Len(resp[p].detections) = 2
        /\ resp[p].detections[1].text = "" /\ resp[p].detections[1].ocr_score = 0
        /\ resp[p].detections[2].text = "abc"

\* C13 as stated: no call of the ROI pre-processing ends a request in failure;
\* recognition is run on every ROI that was pre-processed and the response is
\* success=true
C13_Original ==
    \A p \in OcrRequests :
        (pc[p] = "return" /\ obs[p].preprocess > 0) =>
            /\ resp[p].success
            /\ Len(obs[p].raised) = obs[p].preprocess

\* the requests that called a detector and ended in the detection stage or
\* right after it, before any ranking: past the decoding nothing but a detector
\* call raises there
EndedAtDetection(p) ==
    /\ pc[p] = "return"
    /\ obs[p].predict + obs[p].primary + obs[p].fallback > 0
    /\ obs[p].filtered = <<>>

\* C14 as stated: a request of either endpoint that ends at the detection stage
\* ends with success=true, whatever its detector calls did
C14_Original ==
    \A p \in Procs : EndedAtDetection(p) => resp[p].success

\* C15 as stated: a request that failed inside the gate answers success=false
\* with an empty detection list and a non-empty error message
C15_Original ==
    \A p \in Procs :
        (pc[p] = "return" /\ exit[p] = "error") =>
            /\ ~resp[p].success
            /\ resp[p].detections = <<>>
            /\ resp[p].error \notin {"", "None"}

C17_Original ==
    [][/\ MODEL_OK' = MODEL_OK /\ MP_AVAILABLE' = MP_AVAILABLE
       /\ cv2' = cv2 /\ OCR_BACKEND' = OCR_BACKEND
       /\ mp_detector' = mp_detector /\ mp_model_file' = mp_model_file]_vars

\* C18: a request calls no backend but the one selected at import time, once
\* per ROI and not again after a call raised; the region of a call that raised
\* has text "" and score 0; without a selected backend no call is made and
\* every region has text "" and score 0
C18_SelectedBackendOnly ==
    \A p \in OcrRequests :
        /\ OCR_BACKEND # "easyocr" => obs[p].easyocr = 0
        /\ OCR_BACKEND # "pytesseract" => obs[p].pytesseract = 0
        /\ OCR_BACKEND # "None" => OcrCalls(p) = Len(obs[p].raised)
        /\ \A m \in DOMAIN obs[p].raised :
              /\ obs[p].raised[m] => OCR_BACKEND # "None"
              /\ (obs[p].raised[m] \/ OCR_BACKEND = "None") =>
                    ocr_dets[p][m].text = "" /\ ocr_dets[p][m].ocr_score = 0

\* easyocr is the selected backend, its call raised for a ROI, and pytesseract
\* was not called
C18_Witness ==
    \E p \in OcrRequests :
        /\ OCR_BACKEND = "easyocr"
        /\ obs[p].raised = <<TRUE>>
        /\ obs[p].easyocr = 1 /\ obs[p].pytesseract = 0
        /\ ocr_dets[p][1].text = ""

\* the ROI cropped for the detection request p is working on
Cropped(p) ==
    LET box == RoiBox(dets[p][idx[p]], img[p][1], img[p][2])
    IN  [w |-> box[3] - box[1], h |-> box[4] - box[2], form |-> "crop"]

ProducedBy(regions) ==
    IF \A i \in DOMAIN regions : regions[i].label = "region" THEN "opencv"
    ELSE "mediapipe"

\* C20 as stated: a successful /detect_ocr response with regions names the
\* detector they come from
C20_Original ==
    \A p \in OcrRequests :
        (pc[p] = "return" /\ resp[p].success /\ resp[p].detections # <<>>) =>
            /\ resp[p].detector # "None"
            /\ resp[p].detector = ProducedBy(resp[p].detections)

\* the positions a handler can go to from a position
Successors(at) ==
    CASE at \in {"idle", "done"} -> {"acquire", "unavailable"}
      [] at = "unavailable" -> {"done"}
      [] at = "acquire" -> {"read"}
      [] at = "read" -> {"decode", "return"}
      [] at = "decode" -> {"init_mp", "predict", "return"}
      [] at = "init_mp" -> {"detect"}
      [] at = "detect" -> {"fallback"}
      [] at = "fallback" -> {"rank", "return"}
      [] at = "rank" -> {"crop"}
      [] at = "crop" -> {"resize", "return"}
      [] at = "resize" -> {"preprocess"}
      [] at = "preprocess" -> {"ocr", "return"}
      [] at = "ocr" -> {"crop"}
      [] at = "predict" -> {"return"}
      [] at = "return" -> {"done"}

LoopPcs == {"crop", "resize", "preprocess", "ocr"}

\* a step keeps the order of the pipeline: decoding, detection with its
\* filters, ranking, then cropping, pre-processing and recognition region by
\* region, then the response; the regions are taken in ranked order, one at a
\* time, and a failure leads to the response from wherever it happens
InOrder ==
    \A p \in Procs :
        /\ pc'[p] # pc[p] => pc'[p] \in Successors(pc[p])
        /\ (pc[p] \in LoopPcs /\ pc'[p] \in LoopPcs /\ idx'[p] # idx[p]) =>
              /\ idx'[p] = idx[p] + 1
              /\ pc[p] \in {"ocr", "crop"} /\ pc'[p] = "crop"
        /\ (pc[p] = "ocr" /\ pc'[p] = "crop") => idx'[p] = idx[p] + 1
        /\ (pc[p] \in LoopPcs /\ pc'[p] = "return" /\ exit'[p] = "normal") =>
              idx[p] = Len(dets[p]) + 1

\* C21: under fair scheduling a request waiting for the gate is admitted, every
\* request that was started gets its response and finishes, and every step of
\* a request keeps the order of the pipeline
C21_Progress ==
    /\ [][InOrder]_vars
    /\ \A p \in Procs : (pc[p] = "acquire") ~> (pc[p] = "read")
    /\ \A p \in Procs : (pc[p] \notin {"idle", "done"}) ~> (pc[p] \in {"return", "unavailable"})
    /\ \A p \in Procs : (pc[p] \in {"return", "unavailable"}) ~> (pc[p] = "done")

\* a request has recognized two regions and holds its response while another
\* request waits for the gate
C21_Witness ==
    \E p, q \in Procs :
        /\ pc[p] = "return" /\ exit[p] = "normal" /\ Len(resp[p].detections) = 2
        /\ pc[q] = "acquire" /\ sem = 0

\* the ranked detections among the first n whose ROI was skipped as degenerate
Skipped(p, n) == (1..n) \ Processed(p, n)

\* the filtered detections the truncation cut off
CutOff(p) == {n \in DOMAIN obs[p].filtered :
                 \A i \in DOMAIN dets[p] : dets[p][i] # obs[p].filtered[n]}

\* the region is the one made from detection t
RegionOf(region, t, W, H) ==
    LET box == RoiBox(t, W, H)
    IN  /\ region.x = box[1] /\ region.y = box[2]
        /\ region.width = box[3] - box[1] /\ region.height = box[4] - box[2]
        /\ region.score = t[5] /\ region.label = t[6]

\* C22: a request makes at most max_results recognition calls and its response
\* has at most max_results regions; the regions come from the ranked detections
\* that were kept by the truncation, one region for each of them that is not
\* degenerate, in ranked order, and never from a detection that was cut off,
\* also when a ranked detection was skipped as degenerate
C22_AtMostMaxResults ==
    \A p \in OcrRequests :
        /\ "max_results" \in DOMAIN req[p] =>
              /\ OcrCalls(p) <= req[p].max_results
              /\ obs[p].preprocess <= req[p].max_results
              /\ Len(ocr_dets[p]) <= req[p].max_results
        /\ (pc[p] = "return" /\ resp[p].success) =>
              Len(resp[p].detections) <= req[p].max_results
        /\ PastRank(p) =>
              /\ Len(dets[p]) <= req[p].max_results
              /\ Len(ocr_dets[p]) + Cardinality(Skipped(p, idx[p] - 1)) = idx[p] - 1
              /\ \A m \in DOMAIN ocr_dets[p] :
                    /\ \E i \in Processed(p, idx[p] - 1) :
                          /\ Cardinality(Processed(p, i)) = m
                          /\ RegionOf(ocr_dets[p][m], dets[p][i], img[p][1], img[p][2])
                    /\ \A n \in CutOff(p) :
                          ~RegionOf(ocr_dets[p][m], obs[p].filtered[n], img[p][1], img[p][2])
              /\ Skipped(p, idx[p] - 1) # {} => CutOff(p) = {}

\* two detections passed the filters, max_results = 1 cut one of them off, and
\* the request answers with one region after one recognition call
C22_Witness ==
    \E p \in OcrRequests :
        /\ pc[p] = "return" /\ exit[p] = "normal"
        /\ req[p].max_results = 1 /\ Cardinality(CutOff(p)) = 1
        /\ OcrCalls(p) = 1
        /\ Len(resp[p].detections) = 1

====
